---- MODULE Spec2Model ----
(***************************************************************************)
(* ROI Simulator of api_explorer_dashboard.py: the session-state ledger    *)
(* (sim_trades, sim_futures_pnl), the five number inputs, the button and   *)
(* on_change callbacks that mutate them, and the module-level replay that  *)
(* derives spot balance, high-water mark, principal adjustment and ROI.    *)
(* Amounts are floats in the source; the model uses small integers, on     *)
(* which float addition and subtraction are exact.  ROI, the one division, *)
(* is kept as a reduced fraction.                                          *)
(***************************************************************************)
EXTENDS Integers, Sequences, FiniteSets, TLC

\* ------------------------------------------------------------------ bounds
\* Most entries the two ledgers hold together in the sessions the model
\* explores; either ledger alone can grow to this length.
MaxEvents == 3

\* Values the widgets hand to the callbacks.  The add callbacks guard their
\* amount themselves (amt > 0, pnl != 0), so the amount sets include the
\* values those guards turn away.
\* <<new_sell_input, new_sell_pnl>> at a click on the sell button
SellInputs == {<<-1, 0>>, <<0, 0>>, <<1, 0>>, <<2, -2>>}
\* new_buy_input at a click on the buy button
BuyInputs == {-1, 0, 1}
FuturesInputs == {-1, 0, 1}
\* the options of the sidebar radio: "OKX (...)" alone, the second option
\* "Binance (...)" is commented out
ExchangeOptions == {"OKX"}
\* number_input(min_value=0.0) for the five scalar fields
StartBalInputs == {0, 10}
EndBalInputs == {0, 12}
DepositInputs == {0, 3}
ScalarInputs == {0, 1}

VARIABLES
    sim_trades,       \* st.session_state.sim_trades: list of {type, amount, pnl}
    sim_futures_pnl,  \* st.session_state.sim_futures_pnl: list of signed amounts
    sim_start_bal,    \* key "sim_start_bal"
    sim_end_bal,      \* key "sim_end_bal"
    sim_ext_dep,      \* key "sim_ext_dep"
    sim_ext_wd,       \* key "sim_ext_wd"
    sim_init_spot,    \* key "sim_init_spot"
    sim_manual_pnl,   \* key "sim_manual_pnl" (absent reads as 0.0 through .get)
    sim_spot_sell,    \* key "sim_spot_sell", written by recalc_balance
    sim_spot_buy,     \* key "sim_spot_buy", written by recalc_balance
    lastOp,           \* the callback that ran last
    lastArg,          \* its numeric argument (amount, index or value)
    outcome,          \* "committed", "ignored" (returned without effect) or "IndexError"
    shown,            \* the values the last script run derived and displayed
    exchange_mode     \* the option picked in the sidebar radio "Select Exchange"

ledger == <<sim_trades, sim_futures_pnl>>
scalars == <<sim_start_bal, sim_end_bal, sim_ext_dep, sim_ext_wd, sim_init_spot>>
mirrors == <<sim_manual_pnl, sim_spot_sell, sim_spot_buy>>
session == <<ledger, scalars, mirrors>>
vars == <<session, lastOp, lastArg, outcome, shown, exchange_mode>>

\* ------------------------------------------------------------ list helpers
RECURSIVE SumSeq(_)
\* sum(st.session_state.sim_futures_pnl)
SumSeq(s) == IF s = <<>> THEN 0 ELSE Head(s) + SumSeq(Tail(s))

RECURSIVE SumAmount(_, _)
\* sum(t['amount'] for t in sim_trades if t['type'] == side)
SumAmount(trades, side) ==
    IF trades = <<>> THEN 0
    ELSE (IF Head(trades).type = side THEN Head(trades).amount ELSE 0)
         + SumAmount(Tail(trades), side)

\* variant of list.append that inserts at the front
ListPrepend(s, e) == <<e>> \o s

\* list.append
ListAppend(s, e) == Append(s, e)

\* list.pop(idx) raises IndexError: empty list, idx >= len or idx < -len
PopRaises(s, idx) == idx >= Len(s) \/ idx < -Len(s)

\* variant of list.pop that ignores idx and removes the last element
PopLast(s, idx) == SubSeq(s, 1, Len(s) - 1)

\* list.pop(idx) on a list where it does not raise; a negative idx counts
\* from the end (Python), positions are 0-based
PopAt(s, idx) ==
    LET k == IF idx < 0 THEN Len(s) + idx + 1 ELSE idx + 1
    IN  SubSeq(s, 1, k - 1) \o SubSeq(s, k + 1, Len(s))

\* variant that stores the cost basis in place of the cash amount
SpotEventCostBasis(side, amt, pnl) == [type |-> side, amount |-> amt - pnl, pnl |-> pnl]

\* the dict the add callbacks append
SpotEvent(side, amt, pnl) == [type |-> side, amount |-> amt, pnl |-> pnl]

\* variant guard that only turns zero away
AcceptAmountNonZero(amt) == amt # 0

\* guard of add_sell_callback / add_buy_callback
AcceptAmount(amt) == amt > 0

\* variant without a guard
AcceptPnlAlways(pnl) == TRUE

\* guard of add_futures_pnl_callback
AcceptPnl(pnl) == pnl # 0

\* ------------------------------------------------------------- recalc
\* variant that adds the spot buys to the end balance
EndBalFormulaBuysAdded(sb, ed, ew, ss, sb_amt, manual_pnl_sum) ==
    sb + ed - ew + ss + sb_amt + manual_pnl_sum

\* variant that leaves the futures PnL out of the end balance
EndBalFormulaNoPnl(sb, ed, ew, ss, sb_amt, manual_pnl_sum) ==
    sb + ed - ew + ss - sb_amt

\* The value recalc_balance stores in sim_end_bal.
EndBalFormula(sb, ed, ew, ss, sb_amt, manual_pnl_sum) ==
    sb + ed - ew + ss - sb_amt + manual_pnl_sum

\* a recalculation that adds the flows onto the balance already stored
recalc_accumulates(trades, fpnl, sb, ed, ew) ==
    /\ sim_spot_sell' = SumAmount(trades, "SELL")
    /\ sim_spot_buy' = SumAmount(trades, "BUY")
    /\ sim_end_bal' = EndBalFormula(sim_end_bal, ed, ew, SumAmount(trades, "SELL"),
                                    SumAmount(trades, "BUY"), SumSeq(fpnl))

\* recalc_balance, run on the session state the callback has just written
recalc_balance(trades, fpnl, sb, ed, ew) ==
    /\ sim_spot_sell' = SumAmount(trades, "SELL")
    /\ sim_spot_buy' = SumAmount(trades, "BUY")
    /\ sim_end_bal' = EndBalFormula(sb, ed, ew, SumAmount(trades, "SELL"),
                                    SumAmount(trades, "BUY"), SumSeq(fpnl))

\* ------------------------------------------------- derived values (replay)
RECURSIVE SpotReplayIgnoresPnl(_, _)
\* a replay that takes a sale's amount, not its cost basis, off the balance
SpotReplayIgnoresPnl(calc_spot_bal, trades) ==
    IF trades = <<>> THEN calc_spot_bal
    ELSE LET t == Head(trades)
         IN  SpotReplayIgnoresPnl(IF t.type = "BUY" THEN calc_spot_bal + t.amount
                                  ELSE IF t.type = "SELL" THEN calc_spot_bal - t.amount
                                  ELSE calc_spot_bal,
                                  Tail(trades))

RECURSIVE SpotReplayFloored(_, _)
\* a replay that floors the balance at zero after every event
SpotReplayFloored(calc_spot_bal, trades) ==
    IF trades = <<>> THEN calc_spot_bal
    ELSE LET t == Head(trades)
             cost_basis == t.amount - t.pnl
             bal == IF t.type = "BUY" THEN calc_spot_bal + t.amount
                    ELSE IF t.type = "SELL" THEN calc_spot_bal - cost_basis
                    ELSE calc_spot_bal
         IN  SpotReplayFloored(IF bal < 0 THEN 0 ELSE bal, Tail(trades))

RECURSIVE SpotReplay(_, _)
\* the loop over sim_trades that tracks calc_spot_bal
SpotReplay(calc_spot_bal, trades) ==
    IF trades = <<>> THEN calc_spot_bal
    ELSE LET t == Head(trades)
             cost_basis == t.amount - t.pnl
         IN  SpotReplay(IF t.type = "BUY" THEN calc_spot_bal + t.amount
                        ELSE IF t.type = "SELL" THEN calc_spot_bal - cost_basis
                        ELSE calc_spot_bal,
                        Tail(trades))

Max(a, b) == IF a >= b THEN a ELSE b
Min(a, b) == IF a <= b THEN a ELSE b

\* the replayed balance shown as it comes, without the floor
val_current_spot_unfloored(curr_init_spot, trades) == SpotReplay(curr_init_spot, trades)

\* val_current_spot = max(0.0, calc_spot_bal)
val_current_spot(curr_init_spot, trades) == Max(0, SpotReplay(curr_init_spot, trades))

RECURSIVE HwmReplayIgnoresBuys(_, _, _, _, _)
\* a replay whose flow leaves the buys out
HwmReplayIgnoresBuys(trades, cum_sell, cum_buy, max_val, val_initial_spot) ==
    IF trades = <<>> THEN max_val
    ELSE LET t == Head(trades)
             cs == IF t.type = "SELL" THEN cum_sell + t.amount ELSE cum_sell
             cb == IF t.type = "BUY" THEN cum_buy + t.amount ELSE cum_buy
             deduction == Min(cs, val_initial_spot)
             flow == cs - deduction
         IN  HwmReplayIgnoresBuys(Tail(trades), cs, cb,
                                  IF flow > max_val THEN flow ELSE max_val,
                                  val_initial_spot)

RECURSIVE HwmReplayLastFlow(_, _, _, _, _)
\* a replay that keeps the latest non-negative flow instead of the highest
HwmReplayLastFlow(trades, cum_sell, cum_buy, max_val, val_initial_spot) ==
    IF trades = <<>> THEN max_val
    ELSE LET t == Head(trades)
             cs == IF t.type = "SELL" THEN cum_sell + t.amount ELSE cum_sell
             cb == IF t.type = "BUY" THEN cum_buy + t.amount ELSE cum_buy
             deduction == Min(cs, val_initial_spot)
             flow == (cs - cb) - deduction
         IN  HwmReplayLastFlow(Tail(trades), cs, cb,
                               IF flow > 0 THEN flow ELSE 0, val_initial_spot)

RECURSIVE HwmReplayNoAllowance(_, _, _, _, _)
\* a replay that does not take the initial spot balance off the sales
HwmReplayNoAllowance(trades, cum_sell, cum_buy, max_val, val_initial_spot) ==
    IF trades = <<>> THEN max_val
    ELSE LET t == Head(trades)
             cs == IF t.type = "SELL" THEN cum_sell + t.amount ELSE cum_sell
             cb == IF t.type = "BUY" THEN cum_buy + t.amount ELSE cum_buy
             flow == cs - cb
         IN  HwmReplayNoAllowance(Tail(trades), cs, cb,
                                  IF flow > max_val THEN flow ELSE max_val,
                                  val_initial_spot)

RECURSIVE HwmReplayDoubleAllowance(_, _, _, _, _)
\* a replay that takes the initial spot balance off the sales twice over
HwmReplayDoubleAllowance(trades, cum_sell, cum_buy, max_val, val_initial_spot) ==
    IF trades = <<>> THEN max_val
    ELSE LET t == Head(trades)
             cs == IF t.type = "SELL" THEN cum_sell + t.amount ELSE cum_sell
             cb == IF t.type = "BUY" THEN cum_buy + t.amount ELSE cum_buy
             deduction == Min(cs, 2 * val_initial_spot)
             flow == (cs - cb) - deduction
         IN  HwmReplayDoubleAllowance(Tail(trades), cs, cb,
                                      IF flow > max_val THEN flow ELSE max_val,
                                      val_initial_spot)

RECURSIVE HwmReplay(_, _, _, _, _)
\* the loop over sim_trades that tracks cum_sell, cum_buy and max_val
HwmReplay(trades, cum_sell, cum_buy, max_val, val_initial_spot) ==
    IF trades = <<>> THEN max_val
    ELSE LET t == Head(trades)
             cs == IF t.type = "SELL" THEN cum_sell + t.amount ELSE cum_sell
             cb == IF t.type = "BUY" THEN cum_buy + t.amount ELSE cum_buy
             deduction == Min(cs, val_initial_spot)
             flow == (cs - cb) - deduction
         IN  HwmReplay(Tail(trades), cs, cb,
                       IF flow > max_val THEN flow ELSE max_val, val_initial_spot)

\* the net flow of the whole ledger passed off as the mark, sign and all
hwm_spot_flow_signed_net(val_initial_spot, trades) ==
    (SumAmount(trades, "SELL") - SumAmount(trades, "BUY"))
    - Min(SumAmount(trades, "SELL"), val_initial_spot)

\* a mark replayed as if the initial spot balance were 0
hwm_spot_flow_no_initial(val_initial_spot, trades) == HwmReplay(trades, 0, 0, 0, 0)

\* a mark taken from the totals of the whole ledger, blind to its order
hwm_spot_flow_of_totals(val_initial_spot, trades) ==
    LET val_spot_sell == SumAmount(trades, "SELL")
        flow == (val_spot_sell - SumAmount(trades, "BUY"))
                - (IF val_spot_sell <= val_initial_spot THEN val_spot_sell
                   ELSE val_initial_spot)
    IN  IF flow > 0 THEN flow ELSE 0

\* a mark whose max_val starts at the initial spot balance instead of 0
hwm_spot_flow_from_initial(val_initial_spot, trades) ==
    HwmReplay(trades, 0, 0, val_initial_spot, val_initial_spot)

hwm_spot_flow(val_initial_spot, trades) == HwmReplay(trades, 0, 0, 0, val_initial_spot)

\* net_spot_flow = (val_spot_sell - val_spot_buy) - min(val_spot_sell, val_initial_spot)
net_spot_flow(val_spot_sell, val_spot_buy, val_initial_spot) ==
    (val_spot_sell - val_spot_buy) - Min(val_spot_sell, val_initial_spot)

\* exchange_mode has the single option "OKX (...)" and use_hwm is True
principal_adj(val_external_dep, hwm) == val_external_dep + Max(0, hwm)

\* deposits added and withdrawals subtracted
adjusted_pnl_flows_swapped(val_end_bal, val_start_bal, total_deposit, total_withdrawal) ==
    (val_end_bal - val_start_bal) + total_deposit - total_withdrawal

adjusted_pnl(val_end_bal, val_start_bal, total_deposit, total_withdrawal) ==
    (val_end_bal - val_start_bal) - total_deposit + total_withdrawal

RECURSIVE Gcd(_, _)
Gcd(a, b) == IF b = 0 THEN a ELSE Gcd(b, a % b)

Abs(a) == IF a < 0 THEN -a ELSE a

\* the fraction n/d, d > 0, in lowest terms
Fraction(n, d) ==
    LET g == Gcd(Abs(n), d) IN [num |-> n \div g, den |-> d \div g]

\* the division written down without its guard: nothing to divide by shows
\* as a fraction with denominator 0
roi_unguarded(adjusted, denominator) ==
    IF denominator > 0 THEN Fraction(adjusted * 100, denominator)
    ELSE [num |-> adjusted * 100, den |-> 0]

\* roi = (adjusted_pnl / denominator * 100) if denominator > 0 else 0.0
roi(adjusted, denominator) ==
    IF denominator > 0 THEN Fraction(adjusted * 100, denominator)
    ELSE [num |-> 0, den |-> 1]

\* What one script run derives from the session state and shows.
ComputeResult(trades, val_start_bal, val_end_bal, val_external_dep, val_external_wd, val_initial_spot) ==
    LET val_spot_sell == SumAmount(trades, "SELL")
        val_spot_buy == SumAmount(trades, "BUY")
        hwm == hwm_spot_flow(val_initial_spot, trades)
        padj == principal_adj(val_external_dep, hwm)
        apnl == adjusted_pnl(val_end_bal, val_start_bal,
                             val_external_dep + val_spot_sell,
                             val_external_wd + val_spot_buy)
    IN  [currentSpotBalance |-> val_current_spot(val_initial_spot, trades),
         totalSpotSell |-> val_spot_sell,
         totalSpotBuy |-> val_spot_buy,
         hwmSpotFlow |-> hwm,
         netSpotFlow |-> net_spot_flow(val_spot_sell, val_spot_buy, val_initial_spot),
         principalAdjustment |-> padj,
         adjustedPnl |-> apnl,
         roiPercent |-> roi(apnl, val_start_bal + padj)]

\* if exchange_mode.startswith("OKX")
IsOkx(mode) == mode = "OKX"

\* spot totals taken from the ledger whatever the exchange mode
spot_total_any_mode(mode, trades, side) == SumAmount(trades, side)

\* val_spot_sell / val_spot_buy: summed from sim_trades, then set to 0.0 in
\* the else branch of the exchange-mode test
spot_total(mode, trades, side) == IF IsOkx(mode) THEN SumAmount(trades, side) ELSE 0

\* What one script run derives under either exchange mode.  Outside OKX mode
\* the spot widgets are not drawn: val_spot_sell, val_spot_buy and
\* val_initial_spot are set to 0.0, hwm_spot_flow keeps its initial 0.0,
\* val_current_spot is neither computed nor shown, and principal_adj is
\* val_external_dep alone.
ComputeResultIn(mode, trades, val_start_bal, val_end_bal, val_external_dep, val_external_wd, curr_init_spot) ==
    LET val_spot_sell == spot_total(mode, trades, "SELL")
        val_spot_buy == spot_total(mode, trades, "BUY")
        val_initial_spot == IF IsOkx(mode) THEN curr_init_spot ELSE 0
        hwm == IF IsOkx(mode) THEN hwm_spot_flow(val_initial_spot, trades) ELSE 0
        padj == IF IsOkx(mode) THEN principal_adj(val_external_dep, hwm)
                ELSE val_external_dep
        apnl == adjusted_pnl(val_end_bal, val_start_bal,
                             val_external_dep + val_spot_sell,
                             val_external_wd + val_spot_buy)
    IN  [currentSpotBalance |-> IF IsOkx(mode)
                                THEN val_current_spot(val_initial_spot, trades)
                                ELSE "not shown",
         totalSpotSell |-> val_spot_sell,
         totalSpotBuy |-> val_spot_buy,
         hwmSpotFlow |-> hwm,
         netSpotFlow |-> net_spot_flow(val_spot_sell, val_spot_buy, val_initial_spot),
         principalAdjustment |-> padj,
         adjustedPnl |-> apnl,
         roiPercent |-> roi(apnl, val_start_bal + padj)]

\* the result shown for the current session state
computeResult ==
    ComputeResult(sim_trades, sim_start_bal, sim_end_bal, sim_ext_dep, sim_ext_wd,
                  sim_init_spot)

\* a derivation that carries the previous run's high-water mark forward
\* instead of replaying from zero
resultCarried ==
    [ComputeResult(sim_trades', sim_start_bal', sim_end_bal', sim_ext_dep', sim_ext_wd',
                   sim_init_spot')
        EXCEPT !.hwmSpotFlow = IF shown.hwmSpotFlow > @ THEN shown.hwmSpotFlow ELSE @]

\* what the script run that follows a callback derives from the state the
\* callback leaves
resultAfter ==
    ComputeResult(sim_trades', sim_start_bal', sim_end_bal', sim_ext_dep', sim_ext_wd',
                  sim_init_spot')

\* ------------------------------------------------------------- initial state
Init ==
    /\ sim_trades = <<>>
    /\ sim_futures_pnl = <<>>
    /\ sim_start_bal = 0
    /\ sim_end_bal = 0
    /\ sim_ext_dep = 0
    /\ sim_ext_wd = 0
    /\ sim_init_spot = 0
    /\ sim_manual_pnl = 0
    /\ sim_spot_sell = 0
    /\ sim_spot_buy = 0
    /\ lastOp = "init"
    /\ lastArg = 0
    /\ outcome = "committed"
    /\ shown = computeResult
    /\ exchange_mode \in ExchangeOptions

\* ------------------------------------------------------------- callbacks
add_sell_callback(amt, pnl) ==
    /\ lastOp' = "add_sell"
    /\ lastArg' = amt
    /\ IF AcceptAmount(amt)
       THEN /\ Len(sim_trades) + Len(sim_futures_pnl) < MaxEvents
            /\ sim_trades' = ListAppend(sim_trades, SpotEvent("SELL", amt, pnl))
            /\ recalc_balance(sim_trades', sim_futures_pnl, sim_start_bal,
                              sim_ext_dep, sim_ext_wd)
            /\ outcome' = "committed"
            /\ UNCHANGED <<sim_futures_pnl, sim_start_bal, sim_ext_dep, sim_ext_wd,
                           sim_init_spot, sim_manual_pnl>>
       ELSE /\ outcome' = "ignored"
            /\ UNCHANGED session

add_buy_callback(amt) ==
    /\ lastOp' = "add_buy"
    /\ lastArg' = amt
    /\ IF AcceptAmount(amt)
       THEN /\ Len(sim_trades) + Len(sim_futures_pnl) < MaxEvents
            /\ sim_trades' = ListAppend(sim_trades, SpotEvent("BUY", amt, 0))
            /\ recalc_balance(sim_trades', sim_futures_pnl, sim_start_bal,
                              sim_ext_dep, sim_ext_wd)
            /\ outcome' = "committed"
            /\ UNCHANGED <<sim_futures_pnl, sim_start_bal, sim_ext_dep, sim_ext_wd,
                           sim_init_spot, sim_manual_pnl>>
       ELSE /\ outcome' = "ignored"
            /\ UNCHANGED session

del_trade_callback(idx) ==
    /\ lastOp' = "del_trade"
    /\ lastArg' = idx
    /\ IF PopRaises(sim_trades, idx)
       THEN /\ outcome' = "IndexError"
            /\ UNCHANGED session
       ELSE /\ sim_trades' = PopAt(sim_trades, idx)
            /\ recalc_balance(sim_trades', sim_futures_pnl, sim_start_bal,
                              sim_ext_dep, sim_ext_wd)
            /\ outcome' = "committed"
            /\ UNCHANGED <<sim_futures_pnl, sim_start_bal, sim_ext_dep, sim_ext_wd,
                           sim_init_spot, sim_manual_pnl>>

add_futures_pnl_callback(pnl) ==
    /\ lastOp' = "add_fpnl"
    /\ lastArg' = pnl
    /\ IF AcceptPnl(pnl)
       THEN /\ Len(sim_trades) + Len(sim_futures_pnl) < MaxEvents
            /\ sim_futures_pnl' = ListAppend(sim_futures_pnl, pnl)
            /\ recalc_balance(sim_trades, sim_futures_pnl', sim_start_bal,
                              sim_ext_dep, sim_ext_wd)
            /\ outcome' = "committed"
            /\ UNCHANGED <<sim_trades, sim_start_bal, sim_ext_dep, sim_ext_wd,
                           sim_init_spot, sim_manual_pnl>>
       ELSE /\ outcome' = "ignored"
            /\ UNCHANGED session

del_futures_pnl_callback(idx) ==
    /\ lastOp' = "del_fpnl"
    /\ lastArg' = idx
    /\ IF PopRaises(sim_futures_pnl, idx)
       THEN /\ outcome' = "IndexError"
            /\ UNCHANGED session
       ELSE /\ sim_futures_pnl' = PopAt(sim_futures_pnl, idx)
            /\ recalc_balance(sim_trades, sim_futures_pnl', sim_start_bal,
                              sim_ext_dep, sim_ext_wd)
            /\ outcome' = "committed"
            /\ UNCHANGED <<sim_trades, sim_start_bal, sim_ext_dep, sim_ext_wd,
                           sim_init_spot, sim_manual_pnl>>

\* variant of the reset that forgets the futures-PnL log
reset_keeps_futures_pnl ==
    /\ lastOp' = "reset"
    /\ lastArg' = 0
    /\ sim_trades' = <<>>
    /\ sim_start_bal' = 0
    /\ sim_ext_dep' = 0
    /\ sim_ext_wd' = 0
    /\ sim_manual_pnl' = 0
    /\ sim_init_spot' = 0
    /\ recalc_balance(sim_trades', sim_futures_pnl, sim_start_bal',
                      sim_ext_dep', sim_ext_wd')
    /\ outcome' = "committed"
    /\ UNCHANGED sim_futures_pnl

reset_trades_callback ==
    /\ lastOp' = "reset"
    /\ lastArg' = 0
    /\ sim_trades' = <<>>
    /\ sim_futures_pnl' = <<>>
    /\ sim_start_bal' = 0
    /\ sim_ext_dep' = 0
    /\ sim_ext_wd' = 0
    /\ sim_manual_pnl' = 0
    /\ sim_init_spot' = 0
    /\ recalc_balance(sim_trades', sim_futures_pnl', sim_start_bal',
                      sim_ext_dep', sim_ext_wd')
    /\ outcome' = "committed"

\* ---------------------------------------------------- the five number inputs
\* "1. 시작 자산": the widget stores v under its key, then on_change=recalc_balance
set_sim_start_bal(v) ==
    /\ lastOp' = "set_start"
    /\ lastArg' = v
    /\ sim_start_bal' = v
    /\ recalc_balance(sim_trades, sim_futures_pnl, sim_start_bal', sim_ext_dep, sim_ext_wd)
    /\ outcome' = "committed"
    /\ UNCHANGED <<ledger, sim_ext_dep, sim_ext_wd, sim_init_spot, sim_manual_pnl>>

\* "2. 현재 자산": no on_change callback
set_sim_end_bal(v) ==
    /\ lastOp' = "set_end"
    /\ lastArg' = v
    /\ sim_end_bal' = v
    /\ outcome' = "committed"
    /\ UNCHANGED <<ledger, sim_start_bal, sim_ext_dep, sim_ext_wd, sim_init_spot, mirrors>>

\* "3. 총 외부 입금액", on_change=recalc_balance
set_sim_ext_dep(v) ==
    /\ lastOp' = "set_dep"
    /\ lastArg' = v
    /\ sim_ext_dep' = v
    /\ recalc_balance(sim_trades, sim_futures_pnl, sim_start_bal, sim_ext_dep', sim_ext_wd)
    /\ outcome' = "committed"
    /\ UNCHANGED <<ledger, sim_start_bal, sim_ext_wd, sim_init_spot, sim_manual_pnl>>

\* variant of the withdrawal input without its on_change callback
set_sim_ext_wd_no_recalc(v) ==
    /\ lastOp' = "set_wd"
    /\ lastArg' = v
    /\ sim_ext_wd' = v
    /\ outcome' = "committed"
    /\ UNCHANGED <<ledger, sim_start_bal, sim_end_bal, sim_ext_dep, sim_init_spot, mirrors>>

\* "5. 총 외부 출금액", on_change=recalc_balance
set_sim_ext_wd(v) ==
    /\ lastOp' = "set_wd"
    /\ lastArg' = v
    /\ sim_ext_wd' = v
    /\ recalc_balance(sim_trades, sim_futures_pnl, sim_start_bal, sim_ext_dep, sim_ext_wd')
    /\ outcome' = "committed"
    /\ UNCHANGED <<ledger, sim_start_bal, sim_ext_dep, sim_init_spot, sim_manual_pnl>>

\* variant of the initial-spot input without its on_change callback
set_sim_init_spot_no_recalc(v) ==
    /\ lastOp' = "set_init"
    /\ lastArg' = v
    /\ sim_init_spot' = v
    /\ outcome' = "committed"
    /\ UNCHANGED <<ledger, sim_start_bal, sim_end_bal, sim_ext_dep, sim_ext_wd, mirrors>>

\* "초기 현물 잔고", on_change=recalc_balance
set_sim_init_spot(v) ==
    /\ lastOp' = "set_init"
    /\ lastArg' = v
    /\ sim_init_spot' = v
    /\ recalc_balance(sim_trades, sim_futures_pnl, sim_start_bal, sim_ext_dep, sim_ext_wd)
    /\ outcome' = "committed"
    /\ UNCHANGED <<ledger, sim_start_bal, sim_ext_dep, sim_ext_wd, sim_manual_pnl>>

\* indices the delete callbacks are called with: every position of the list,
\* Python's negative positions, and one step past either end of -len..len-1
IndexInputs(s) == (-(Len(s) + 1))..Len(s)

\* Streamlit runs the callback of a click or an edit and then the script from
\* the top, which derives the displayed values anew from the session state
Rerun(callback) ==
    /\ callback
    /\ shown' = resultAfter
    /\ UNCHANGED exchange_mode

Next ==
    \/ \E in \in SellInputs : Rerun(add_sell_callback(in[1], in[2]))
    \/ \E amt \in BuyInputs : Rerun(add_buy_callback(amt))
    \/ \E idx \in IndexInputs(sim_trades) : Rerun(del_trade_callback(idx))
    \/ \E pnl \in FuturesInputs : Rerun(add_futures_pnl_callback(pnl))
    \/ \E idx \in IndexInputs(sim_futures_pnl) : Rerun(del_futures_pnl_callback(idx))
    \/ Rerun(reset_trades_callback)
    \/ \E v \in StartBalInputs : Rerun(set_sim_start_bal(v))
    \/ \E v \in EndBalInputs : Rerun(set_sim_end_bal(v))
    \/ \E v \in DepositInputs : Rerun(set_sim_ext_dep(v))
    \/ \E v \in ScalarInputs : Rerun(set_sim_ext_wd(v))
    \/ \E v \in ScalarInputs : Rerun(set_sim_init_spot(v))

Spec == Init /\ [][Next]_vars

\* ------------------------------------- the derivation over drawn inputs
\* longest spot ledger drawn
MaxReplayLen == 3

\* spot events the two add callbacks can have appended
ReplayEvents ==
    {SpotEvent("BUY", 1, 0), SpotEvent("BUY", 3, 0), SpotEvent("SELL", 1, 0),
     SpotEvent("SELL", 3, 0), SpotEvent("SELL", 1, -2), SpotEvent("SELL", 3, 1)}

ReplayLedgers == UNION {[1..n -> ReplayEvents] : n \in 0..MaxReplayLen}

\* sim_init_spot as typed into its field
ReplayInitSpot == {0, 1, 3}

\* <<sim_start_bal, sim_end_bal, sim_ext_dep, sim_ext_wd>> as typed into
\* the four balance fields
ReplayBalances == {<<0, 0, 0, 0>>, <<0, 1, 0, 0>>, <<1, 0, 1, 1>>, <<10, 12, 3, 0>>}

ReplayFutures == {<<>>, <<1>>}

\* a session holding drawn inputs, on which the script has not run yet: the
\* display still holds what a fresh session derives
InitReplay ==
    /\ sim_trades \in ReplayLedgers
    /\ sim_futures_pnl \in ReplayFutures
    /\ sim_init_spot \in ReplayInitSpot
    /\ \E b \in ReplayBalances :
          /\ sim_start_bal = b[1]
          /\ sim_end_bal = b[2]
          /\ sim_ext_dep = b[3]
          /\ sim_ext_wd = b[4]
    /\ sim_manual_pnl = 0
    /\ sim_spot_sell = SumAmount(sim_trades, "SELL")
    /\ sim_spot_buy = SumAmount(sim_trades, "BUY")
    /\ lastOp = "inputs"
    /\ lastArg = 0
    /\ outcome = "committed"
    /\ shown = ComputeResult(<<>>, 0, 0, 0, 0, 0)
    /\ exchange_mode \in ExchangeOptions

\* how many recomputations have now run back to back, counted up to two
RunsInARow == IF lastOp \in {"script_run", "recalc"} THEN 2 ELSE 1

\* one top-to-bottom run of the script with no callback before it
script_run ==
    /\ lastOp' = "script_run"
    /\ lastArg' = RunsInARow
    /\ outcome' = "committed"
    /\ shown' = computeResult
    /\ UNCHANGED <<session, exchange_mode>>

\* recalc_balance run on the session as it stands
recalc_only ==
    /\ lastOp' = "recalc"
    /\ lastArg' = RunsInARow
    /\ outcome' = "committed"
    /\ recalc_balance(sim_trades, sim_futures_pnl, sim_start_bal, sim_ext_dep, sim_ext_wd)
    /\ UNCHANGED <<ledger, sim_start_bal, sim_ext_dep, sim_ext_wd, sim_init_spot,
                   sim_manual_pnl>>

NextReplay ==
    \/ script_run
    \/ Rerun(recalc_only)

SpecReplay == InitReplay /\ [][NextReplay]_vars

\* --------------------------------- the derivation under either exchange mode
\* the radio's option and the one commented out beside it
ExchangeModes == {"OKX", "Binance"}

\* drawn inputs as in InitReplay, with the exchange mode drawn as well
InitModes ==
    /\ exchange_mode \in ExchangeModes
    /\ sim_trades \in ReplayLedgers
    /\ sim_futures_pnl = <<>>
    /\ sim_init_spot \in ReplayInitSpot
    /\ \E b \in ReplayBalances :
          /\ sim_start_bal = b[1]
          /\ sim_end_bal = b[2]
          /\ sim_ext_dep = b[3]
          /\ sim_ext_wd = b[4]
    /\ sim_manual_pnl = 0
    /\ sim_spot_sell = SumAmount(sim_trades, "SELL")
    /\ sim_spot_buy = SumAmount(sim_trades, "BUY")
    /\ lastOp = "inputs"
    /\ lastArg = 0
    /\ outcome = "committed"
    /\ shown = ComputeResult(<<>>, 0, 0, 0, 0, 0)

\* one top-to-bottom run of the script in the exchange mode picked
script_run_in_mode ==
    /\ lastOp' = "script_run"
    /\ lastArg' = RunsInARow
    /\ outcome' = "committed"
    /\ shown' = ComputeResultIn(exchange_mode, sim_trades, sim_start_bal, sim_end_bal,
                                sim_ext_dep, sim_ext_wd, sim_init_spot)
    /\ UNCHANGED <<session, exchange_mode>>

NextModes == script_run_in_mode

SpecModes == InitModes /\ [][NextModes]_vars

\* ================================================================= claims
\* the element at 1-based position k dropped, everything else in place
DropAt(s, k) == [j \in 1..(Len(s) - 1) |-> IF j < k THEN s[j] ELSE s[j + 1]]

RECURSIVE IsSubseq(_, _)
\* t can be obtained from s by deleting elements, the rest keeping their order
IsSubseq(t, s) ==
    \/ t = <<>>
    \/ /\ s # <<>>
       /\ \/ Head(t) = Head(s) /\ IsSubseq(Tail(t), Tail(s))
          \/ IsSubseq(t, Tail(s))

InRange(s, i) == i \in 0..(Len(s) - 1)

\* C1: a delete whose index lies outside 0..len-1 of its sequence raises
\* IndexError and leaves both ledgers, the five scalars and hence the
\* computed result as they were.
C1_OutOfRangeDeleteRaises ==
    [][ /\ (lastOp' = "del_trade" /\ ~InRange(sim_trades, lastArg'))
            => /\ outcome' = "IndexError"
               /\ UNCHANGED <<ledger, scalars>>
               /\ resultAfter = computeResult
        /\ (lastOp' = "del_fpnl" /\ ~InRange(sim_futures_pnl, lastArg'))
            => /\ outcome' = "IndexError"
               /\ UNCHANGED <<ledger, scalars>>
               /\ resultAfter = computeResult ]_vars

\* C2: a delete with 0 <= i < len removes exactly the element at position i:
\* the sequence is the old one with that element dropped, the rest in their
\* order, and the other ledger is untouched.
C2_DeleteRemovesExactlyIndex ==
    [][ /\ (lastOp' = "del_trade" /\ InRange(sim_trades, lastArg'))
            => /\ outcome' = "committed"
               /\ Len(sim_trades') = Len(sim_trades) - 1
               /\ sim_trades' = DropAt(sim_trades, lastArg' + 1)
               /\ sim_futures_pnl' = sim_futures_pnl
        /\ (lastOp' = "del_fpnl" /\ InRange(sim_futures_pnl, lastArg'))
            => /\ outcome' = "committed"
               /\ Len(sim_futures_pnl') = Len(sim_futures_pnl) - 1
               /\ sim_futures_pnl' = DropAt(sim_futures_pnl, lastArg' + 1)
               /\ sim_trades' = sim_trades ]_vars

\* a delete of the first of three spot transfers has just left two survivors
C2_Witness ==
    /\ lastOp = "del_trade"
    /\ lastArg = 0
    /\ outcome = "committed"
    /\ Len(sim_trades) = 2
    /\ sim_trades[1] # sim_trades[2]

\* C3: a successful add puts the new event last, after the previous contents
\* as an unchanged prefix; every other step leaves each ledger a subsequence
\* of what it was, so surviving events never swap their relative order.
C3_AppendAtEndOrderKept ==
    [][ /\ IF lastOp' \in {"add_sell", "add_buy"} /\ outcome' = "committed"
           THEN /\ Len(sim_trades') = Len(sim_trades) + 1
                /\ SubSeq(sim_trades', 1, Len(sim_trades)) = sim_trades
                /\ sim_trades'[Len(sim_trades')].amount = lastArg'
           ELSE IsSubseq(sim_trades', sim_trades)
        /\ IF lastOp' = "add_fpnl" /\ outcome' = "committed"
           THEN /\ Len(sim_futures_pnl') = Len(sim_futures_pnl) + 1
                /\ SubSeq(sim_futures_pnl', 1, Len(sim_futures_pnl)) = sim_futures_pnl
                /\ sim_futures_pnl'[Len(sim_futures_pnl')] = lastArg'
           ELSE IsSubseq(sim_futures_pnl', sim_futures_pnl) ]_vars

\* a BUY has just been appended behind two earlier transfers that differ
C3_Witness ==
    /\ lastOp = "add_buy"
    /\ outcome = "committed"
    /\ Len(sim_trades) = 3
    /\ sim_trades[1] # sim_trades[2]
    /\ sim_trades[3].type = "BUY"

\* C4: after reset (its recalc_balance included) both ledgers are empty and
\* the five scalar inputs are zero.
C4_ResetZeroesEverything ==
    lastOp = "reset" =>
        /\ sim_trades = <<>>
        /\ sim_futures_pnl = <<>>
        /\ sim_start_bal = 0
        /\ sim_end_bal = 0
        /\ sim_ext_dep = 0
        /\ sim_ext_wd = 0
        /\ sim_init_spot = 0

\* the reset button was the last thing pressed
C4_Witness ==
    /\ lastOp = "reset"
    /\ outcome = "committed"
    /\ sim_trades = <<>>
    /\ sim_end_bal = 0

\* C5 as stated: an add of a spot transfer with a negative amount raises
\* ValidationError and leaves the whole state as it was.
C5_NegativeSpotAmountRaises ==
    [][ (lastOp' \in {"add_sell", "add_buy"} /\ lastArg' < 0)
            => /\ outcome' = "ValidationError"
               /\ UNCHANGED <<ledger, scalars>> ]_vars

\* C5 as amended: an add of a spot transfer with a negative amount is turned
\* away without any error: the callback returns, nothing is appended and the
\* five scalars and both ledgers are exactly as before.
C5_NegativeSpotAmountIgnored ==
    [][ (lastOp' \in {"add_sell", "add_buy"} /\ lastArg' < 0)
            => /\ outcome' = "ignored"
               /\ UNCHANGED <<ledger, scalars>> ]_vars

\* a negative amount has just been turned away on a non-empty ledger
C5_Witness ==
    /\ lastOp \in {"add_sell", "add_buy"}
    /\ lastArg < 0
    /\ outcome = "ignored"
    /\ sim_trades # <<>>

\* C6: a zero futures PnL is turned away and nothing is appended, so no
\* element of sim_futures_pnl is ever zero.
C6_FuturesPnlNonZero ==
    /\ [](\A i \in 1..Len(sim_futures_pnl) : sim_futures_pnl[i] # 0)
    /\ [][ (lastOp' = "add_fpnl" /\ lastArg' = 0)
               => /\ outcome' = "ignored"
                  /\ UNCHANGED <<ledger, scalars>> ]_vars

\* a zero futures PnL has just been turned away on a non-empty log
C6_Witness ==
    /\ lastOp = "add_fpnl"
    /\ lastArg = 0
    /\ outcome = "ignored"
    /\ sim_futures_pnl # <<>>

\* C7: every stored spot transfer is a BUY or a SELL with amount >= 0, and
\* its fields never change while it is stored: after any step each event of
\* the ledger is, field for field, the event that stood at the same place or
\* one place later before the step, or it is the event just appended, which
\* carries the amount that was entered.
C7_SpotEventsValidAndImmutable ==
    /\ [](\A i \in 1..Len(sim_trades) :
            /\ sim_trades[i].type \in {"BUY", "SELL"}
            /\ sim_trades[i].amount >= 0)
    /\ [][ \A j \in 1..Len(sim_trades') :
             \/ /\ j <= Len(sim_trades)
                /\ sim_trades'[j] = sim_trades[j]
             \/ /\ j + 1 <= Len(sim_trades)
                /\ sim_trades'[j] = sim_trades[j + 1]
             \/ /\ j = Len(sim_trades) + 1
                /\ outcome' = "committed"
                /\ \/ lastOp' = "add_sell" /\ sim_trades'[j].type = "SELL"
                   \/ lastOp' = "add_buy" /\ sim_trades'[j].type = "BUY"
                      /\ sim_trades'[j].pnl = 0
                /\ sim_trades'[j].amount = lastArg' ]_vars

\* a SELL carrying a realized loss is still stored, unchanged, after a later
\* edit of a scalar input
C7_Witness ==
    /\ lastOp = "set_start"
    /\ Len(sim_trades) = 3
    /\ sim_trades[1] = [type |-> "SELL", amount |-> 2, pnl |-> -2]
    /\ sim_trades[3].type = "BUY"

\* what recalc_balance leaves in sim_end_bal, written out on the state
ExpectedEndBal ==
    sim_start_bal + sim_ext_dep - sim_ext_wd
    + SumAmount(sim_trades, "SELL") - SumAmount(sim_trades, "BUY")
    + SumSeq(sim_futures_pnl)

\* C8 as stated: an edit of one scalar input changes that field only; the
\* other four scalars and both ledgers keep their values.
C8_ScalarEditChangesOnlyItsField ==
    [][ /\ lastOp' = "set_start" =>
               UNCHANGED <<ledger, sim_end_bal, sim_ext_dep, sim_ext_wd, sim_init_spot>>
        /\ lastOp' = "set_end" =>
               UNCHANGED <<ledger, sim_start_bal, sim_ext_dep, sim_ext_wd, sim_init_spot>>
        /\ lastOp' = "set_dep" =>
               UNCHANGED <<ledger, sim_start_bal, sim_end_bal, sim_ext_wd, sim_init_spot>>
        /\ lastOp' = "set_wd" =>
               UNCHANGED <<ledger, sim_start_bal, sim_end_bal, sim_ext_dep, sim_init_spot>>
        /\ lastOp' = "set_init" =>
               UNCHANGED <<ledger, sim_start_bal, sim_end_bal, sim_ext_dep, sim_ext_wd>> ]_vars

\* C8 as amended: an edit sets its field to the value entered and leaves both
\* ledgers and the other scalars alone, except sim_end_bal: an edit of the
\* start balance, the external deposit, the external withdrawal or the
\* initial spot balance runs recalc_balance, which overwrites sim_end_bal
\* with start + deposit - withdrawal + sells - buys + futures PnL.  An edit
\* of the end balance changes the end balance only.
C8_ScalarEditChangesItsFieldAndEndBal ==
    [][ /\ lastOp' = "set_start" =>
               /\ sim_start_bal' = lastArg'
               /\ UNCHANGED <<ledger, sim_ext_dep, sim_ext_wd, sim_init_spot>>
               /\ sim_end_bal' = ExpectedEndBal'
        /\ lastOp' = "set_end" =>
               /\ sim_end_bal' = lastArg'
               /\ UNCHANGED <<ledger, sim_start_bal, sim_ext_dep, sim_ext_wd, sim_init_spot>>
        /\ lastOp' = "set_dep" =>
               /\ sim_ext_dep' = lastArg'
               /\ UNCHANGED <<ledger, sim_start_bal, sim_ext_wd, sim_init_spot>>
               /\ sim_end_bal' = ExpectedEndBal'
        /\ lastOp' = "set_wd" =>
               /\ sim_ext_wd' = lastArg'
               /\ UNCHANGED <<ledger, sim_start_bal, sim_ext_dep, sim_init_spot>>
               /\ sim_end_bal' = ExpectedEndBal'
        /\ lastOp' = "set_init" =>
               /\ sim_init_spot' = lastArg'
               /\ UNCHANGED <<ledger, sim_start_bal, sim_ext_dep, sim_ext_wd>>
               /\ sim_end_bal' = ExpectedEndBal' ]_vars

\* the external deposit has just been edited to 3 on a non-empty ledger and
\* the end balance is no longer the 0 it would have kept
C8_Witness ==
    /\ lastOp = "set_dep"
    /\ lastArg = 3
    /\ sim_trades # <<>>
    /\ sim_end_bal # 0

\* C9: with no negative value supplied, the five scalar inputs are all >= 0.
C9_ScalarsNonNegative ==
    (\A i \in 1..Len(sim_futures_pnl) : sim_futures_pnl[i] >= 0)
        => /\ sim_start_bal >= 0
           /\ sim_end_bal >= 0
           /\ sim_ext_dep >= 0
           /\ sim_ext_wd >= 0
           /\ sim_init_spot >= 0

\* C10 as stated: adding or deleting a futures PnL leaves sim_end_bal, and
\* with it adjusted PnL, principal adjustment and ROI, unchanged.
C10_FuturesPnlLeavesEndBalance ==
    [][ lastOp' \in {"add_fpnl", "del_fpnl"}
            => /\ sim_end_bal' = sim_end_bal
               /\ resultAfter.adjustedPnl = computeResult.adjustedPnl
               /\ resultAfter.principalAdjustment = computeResult.principalAdjustment
               /\ resultAfter.roiPercent = computeResult.roiPercent ]_vars

\* C10 as amended: a futures PnL does not enter the formulas or the principal
\* adjustment, but it is folded into the end balance: a successful add or
\* delete sets sim_end_bal to start + deposit - withdrawal + sells - buys +
\* the sum of the futures-PnL log and leaves the principal adjustment
\* unchanged; adjusted PnL follows the new end balance through the unchanged
\* formula (end - start) - (deposit + sells) + (withdrawal + buys).
C10_FuturesPnlFoldedIntoEndBalance ==
    [][ (lastOp' \in {"add_fpnl", "del_fpnl"} /\ outcome' = "committed")
            => /\ sim_end_bal' = ExpectedEndBal'
               /\ resultAfter.principalAdjustment = computeResult.principalAdjustment
               /\ resultAfter.adjustedPnl =
                      (sim_end_bal' - sim_start_bal)
                      - (sim_ext_dep + SumAmount(sim_trades, "SELL"))
                      + (sim_ext_wd + SumAmount(sim_trades, "BUY"))
               /\ resultAfter.adjustedPnl = SumSeq(sim_futures_pnl') ]_vars

\* a third futures PnL has just been added and the end balance is their sum
C10_Witness ==
    /\ lastOp = "add_fpnl"
    /\ outcome = "committed"
    /\ sim_futures_pnl = <<-1, 1, 1>>
    /\ sim_trades = <<>>
    /\ sim_start_bal = 0 /\ sim_ext_dep = 0 /\ sim_ext_wd = 0
    /\ sim_end_bal = 1

C12_RecomputeIdempotent ==
    [][(lastOp \in {"script_run", "recalc"} /\ lastOp' = lastOp)
          => (shown' = shown /\ UNCHANGED <<ledger, scalars>>)]_vars

\* recalc_balance has run twice in a row on a session whose stored
\* sim_end_bal the first run had to overwrite
C12_Witness ==
    /\ lastOp = "recalc"
    /\ lastArg = 2
    /\ sim_futures_pnl # <<>>
    /\ sim_trades # <<>>
    /\ sim_end_bal # 0

\* ----------------------------------------------------------------- C13
\* the script has derived the displayed values from the drawn inputs
Derived == lastOp \in {"script_run", "recalc"}

\* sum over the SELL events of (amount - pnl)
SellCostBasisSum ==
    SumSeq([k \in 1..Len(sim_trades) |->
               IF sim_trades[k].type = "SELL"
               THEN sim_trades[k].amount - sim_trades[k].pnl ELSE 0])

\* sum of the amounts of the events of one side
SideAmountSum(side) ==
    SumSeq([k \in 1..Len(sim_trades) |->
               IF sim_trades[k].type = side THEN sim_trades[k].amount ELSE 0])

\* C13: for every initial spot balance and spot ledger the displayed
\* currentSpotBalance is max(0, initial + sum of BUY amounts - sum over SELL
\* events of (amount - pnl)): the floor is applied once, to the final value.
C13_SpotBalanceIsFlooredNetSum ==
    Derived =>
        shown.currentSpotBalance =
            Max(0, sim_init_spot + SideAmountSum("BUY") - SellCostBasisSum)

\* the loss example scaled by ten: initial 3, one SELL of 1 at a loss of 2,
\* balance 0
C13_Witness ==
    /\ Derived
    /\ sim_init_spot = 3
    /\ sim_trades = <<SpotEvent("SELL", 1, -2)>>
    /\ shown.currentSpotBalance = 0

\* ----------------------------------------------------------------- C14
\* every SELL of the ledger has pnl 0
AllSellsAtCost ==
    \A k \in 1..Len(sim_trades) : sim_trades[k].type = "SELL" => sim_trades[k].pnl = 0

\* C14: when every SELL carries pnl 0, the displayed currentSpotBalance is
\* max(0, initial + totalSpotBuy - totalSpotSell).
C14_SpotBalanceAtCost ==
    (Derived /\ AllSellsAtCost) =>
        shown.currentSpotBalance =
            Max(0, sim_init_spot + shown.totalSpotBuy - shown.totalSpotSell)

\* sales at cost first overdraw the balance, a later buy brings it back
C14_Witness ==
    /\ Derived
    /\ AllSellsAtCost
    /\ sim_init_spot = 0
    /\ sim_trades = <<SpotEvent("SELL", 1, 0), SpotEvent("BUY", 3, 0)>>
    /\ shown.currentSpotBalance = 2

\* ----------------------------------------------------------------- C15
\* C15: in every state the operations reach, the displayed
\* currentSpotBalance is >= 0; when the sales (whatever the sign of their
\* pnl) release more cost basis than initial balance plus buys, the value is
\* clamped to 0.
C15_SpotBalanceNonNegative ==
    /\ shown.currentSpotBalance >= 0
    /\ (sim_init_spot + SideAmountSum("BUY") - SellCostBasisSum < 0
           => shown.currentSpotBalance = 0)

\* a sale at a loss has just taken the replayed balance below zero, 0 is shown
C15_Witness ==
    /\ lastOp = "add_sell"
    /\ outcome = "committed"
    /\ sim_init_spot + SideAmountSum("BUY") - SellCostBasisSum < 0
    /\ sim_trades[Len(sim_trades)].pnl < 0
    /\ shown.currentSpotBalance = 0

\* ----------------------------------------------------------------- C16
\* sum of the amounts of one side over the first k events
PrefixAmountSum(side, k) ==
    SumSeq([j \in 1..k |-> IF sim_trades[j].type = side THEN sim_trades[j].amount ELSE 0])

\* (cumSell - cumBuy) - min(cumSell, initial) of the prefix of length k
PrefixFlow(k) ==
    (PrefixAmountSum("SELL", k) - PrefixAmountSum("BUY", k))
    - Min(PrefixAmountSum("SELL", k), sim_init_spot)

\* the largest of 0 and the flows of all non-empty prefixes
HighestPrefixFlow ==
    LET flows == {0} \cup {PrefixFlow(k) : k \in 1..Len(sim_trades)}
    IN  CHOOSE m \in flows : \A f \in flows : m >= f

\* C16: the displayed hwmSpotFlow is max(0, max over the non-empty prefixes
\* of the spot ledger of ((cumSell - cumBuy) - min(cumSell, initial))); with
\* an empty ledger it is 0.
C16_HwmIsHighestPrefixFlow ==
    Derived =>
        /\ shown.hwmSpotFlow = HighestPrefixFlow
        /\ (sim_trades = <<>> => shown.hwmSpotFlow = 0)

\* the example scaled by ten: initial 0, [BUY 3, SELL 1], mark 0
C16_Witness ==
    /\ Derived
    /\ sim_init_spot = 0
    /\ sim_trades = <<SpotEvent("BUY", 3, 0), SpotEvent("SELL", 1, 0)>>
    /\ shown.hwmSpotFlow = 0

\* ----------------------------------------------------------------- C17
\* C17: with the initial spot balance fixed, appending a BUY or a SELL never
\* lowers hwmSpotFlow: the value displayed after a committed add is >= the
\* value displayed before it.
C17_HwmNonDecreasingUnderAppend ==
    [][(lastOp' \in {"add_sell", "add_buy"} /\ outcome' = "committed")
          => (sim_init_spot' = sim_init_spot /\ shown'.hwmSpotFlow >= shown.hwmSpotFlow)]_vars

\* a BUY has just been appended after a peak: the net flow is back below the
\* mark, which stays
C17_Witness ==
    /\ lastOp = "add_buy"
    /\ outcome = "committed"
    /\ shown.hwmSpotFlow > 0
    /\ shown.netSpotFlow < shown.hwmSpotFlow

\* ----------------------------------------------------------------- C18
\* start 10, end 12, deposit 3, no withdrawal, no spot transfers
PolicyAExampleState ==
    /\ sim_start_bal = 10
    /\ sim_end_bal = 12
    /\ sim_ext_dep = 3
    /\ sim_ext_wd = 0
    /\ sim_trades = <<>>

\* C18: in every state (exchange_mode is OKX and use_hwm is True, Policy A)
\* principalAdjustment = deposit + max(0, hwmSpotFlow) and adjustedPnl =
\* (end - start) - (deposit + totalSpotSell) + (withdrawal + totalSpotBuy);
\* in the example state (the claim's figures divided by 100) adjustedPnl is
\* -1, principalAdjustment is 3 and roiPercent is -1/13*100 = -100/13.
C18_PolicyAFormulas ==
    /\ shown.principalAdjustment = sim_ext_dep + Max(0, HighestPrefixFlow)
    /\ shown.adjustedPnl =
           (sim_end_bal - sim_start_bal)
           - (sim_ext_dep + SideAmountSum("SELL"))
           + (sim_ext_wd + SideAmountSum("BUY"))
    /\ PolicyAExampleState =>
           /\ shown.adjustedPnl = -1
           /\ shown.principalAdjustment = 3
           /\ shown.roiPercent = [num |-> -100, den |-> 13]

\* the example state, reached by editing start, deposit and then end
C18_Witness ==
    /\ PolicyAExampleState
    /\ sim_futures_pnl = <<>>
    /\ lastOp = "set_end"

\* ----------------------------------------------------------------- C19
\* both ledgers empty, nothing deposited or withdrawn
ZeroLedgerBaseline ==
    /\ sim_trades = <<>>
    /\ sim_futures_pnl = <<>>
    /\ sim_ext_dep = 0
    /\ sim_ext_wd = 0

\* C19: whenever both ledgers are empty and deposit = withdrawal = 0,
\* adjustedPnl = end - start and principalAdjustment = 0, whatever start, end
\* and initial spot balance are.
C19_ZeroLedgerBaseline ==
    ZeroLedgerBaseline =>
        /\ shown.adjustedPnl = sim_end_bal - sim_start_bal
        /\ shown.principalAdjustment = 0

\* the baseline with start, end and initial spot balance all non-zero
C19_Witness ==
    /\ ZeroLedgerBaseline
    /\ sim_start_bal = 10
    /\ sim_end_bal = 12
    /\ sim_init_spot = 1
    /\ shown.adjustedPnl = 2

\* ----------------------------------------------------------------- C20
\* C20: roiPercent is defined in every state: when start +
\* principalAdjustment is not > 0 it is 0, otherwise it is the fraction
\* adjustedPnl / (start + principalAdjustment) * 100.
C20_RoiDefined ==
    LET denominator == sim_start_bal + shown.principalAdjustment
    IN  /\ shown.roiPercent.den > 0
        /\ IF denominator > 0
           THEN shown.roiPercent.num * denominator
                    = shown.adjustedPnl * 100 * shown.roiPercent.den
           ELSE shown.roiPercent.num = 0

\* start and principal adjustment are both zero while the adjusted PnL is
\* not: 0 is shown
C20_Witness ==
    /\ sim_start_bal = 0
    /\ shown.principalAdjustment = 0
    /\ shown.adjustedPnl # 0
    /\ shown.roiPercent.num = 0

\* ----------------------------------------------------------------- C21
\* the script has run outside OKX mode (Policy B)
DerivedPolicyB == Derived /\ ~IsOkx(exchange_mode)

C22_ReturnOfCapitalNotExtraction ==
    (Derived /\ SideAmountSum("SELL") <= sim_init_spot) =>
        /\ shown.hwmSpotFlow = 0
        /\ shown.principalAdjustment = sim_ext_dep

\* sales adding up to the whole initial balance of 3 sit in a ledger of two
\* or more events; a deposit of 3 is the entire principal adjustment
C22_Witness ==
    /\ Derived
    /\ sim_init_spot = 3
    /\ SideAmountSum("SELL") = 3
    /\ Len(sim_trades) >= 2
    /\ sim_ext_dep = 3
    /\ shown.hwmSpotFlow = 0
    /\ shown.principalAdjustment = 3

\* ----------------------------------------------------------------- C23
\* the spot ledger in the opposite order
ReversedTrades == [k \in 1..Len(sim_trades) |-> sim_trades[Len(sim_trades) + 1 - k]]

\* what the script derives from the same inputs with the ledger reversed
ReversedResult ==
    ComputeResult(ReversedTrades, sim_start_bal, sim_end_bal, sim_ext_dep, sim_ext_wd,
                  sim_init_spot)

\* [SELL a, BUY a] on an initial spot balance of 0
SellThenBuyBack ==
    /\ sim_init_spot = 0
    /\ Len(sim_trades) = 2
    /\ sim_trades[1].type = "SELL"
    /\ sim_trades[2].type = "BUY"
    /\ sim_trades[1].amount = sim_trades[2].amount

\* C23: the order of the spot ledger matters to the high-water mark and to
\* nothing else among the totals: with initial spot balance 0, [SELL a, BUY a]
\* gives hwmSpotFlow = a while the same events as [BUY a, SELL a] give 0;
\* totalSpotSell, totalSpotBuy and netSpotFlow are the same for a ledger and
\* its reversal.
C23_OrderMattersToHwmOnly ==
    Derived =>
        /\ shown.totalSpotSell = ReversedResult.totalSpotSell
        /\ shown.totalSpotBuy = ReversedResult.totalSpotBuy
        /\ shown.netSpotFlow = ReversedResult.netSpotFlow
        /\ SellThenBuyBack =>
               /\ shown.hwmSpotFlow = sim_trades[1].amount
               /\ ReversedResult.hwmSpotFlow = 0

\* [SELL 3, BUY 3] has been replayed: mark 3, net flow 0, and mark 0 for the
\* reversed ledger
C23_Witness ==
    /\ Derived
    /\ SellThenBuyBack
    /\ sim_trades[1].amount = 3
    /\ shown.hwmSpotFlow = 3
    /\ shown.netSpotFlow = 0
    /\ ReversedResult.hwmSpotFlow = 0

\* ----------------------------------------------------------------- C24
\* the callbacks that end in recalc_balance; set_end is not among them
RecalcOps ==
    {"add_sell", "add_buy", "del_trade", "add_fpnl", "del_fpnl", "reset",
     "set_start", "set_dep", "set_wd", "set_init"}

\* C24: right after every operation that runs recalc_balance (a committed
\* add or delete on either ledger, reset, an edit of start, deposit,
\* withdrawal or initial spot balance) sim_end_bal = start + deposit -
\* withdrawal + total SELL - total BUY + sum of the futures PnL; the value is
\* written whatever sim_end_bal held before, a typed-in one included.
C24_RecalcSetsEndBalance ==
    [][(lastOp' \in RecalcOps /\ outcome' = "committed")
          => sim_end_bal' =
                 sim_start_bal' + sim_ext_dep' - sim_ext_wd'
                 + SideAmountSum("SELL")' - SideAmountSum("BUY")'
                 + SumSeq(sim_futures_pnl')]_vars

\* a spot event has just been deleted on a session with a start balance, a
\* futures PnL and a remaining spot event; the end balance is the formula's
C24_Witness ==
    /\ lastOp = "del_trade"
    /\ outcome = "committed"
    /\ sim_start_bal = 10
    /\ sim_futures_pnl = <<-1>>
    /\ sim_trades = <<SpotEvent("BUY", 1, 0)>>
    /\ sim_end_bal = 8

\* ----------------------------------------------------------------- C25
\* C25: in every state reached directly by an operation that runs
\* recalc_balance, the displayed adjustedPnl is the sum of the futures PnL
\* log, whatever start, deposit, withdrawal and the spot ledger are; with an
\* empty futures log adjustedPnl = 0 and roiPercent = 0.
C25_AdjustedPnlIsFuturesSum ==
    (lastOp \in RecalcOps /\ outcome = "committed") =>
        /\ shown.adjustedPnl = SumSeq(sim_futures_pnl)
        /\ sim_futures_pnl = <<>> =>
               (shown.adjustedPnl = 0 /\ shown.roiPercent = [num |-> 0, den |-> 1])

\* the withdrawal has just been edited on a session with start balance,
\* deposit, a spot sale and one futures PnL: adjusted PnL is that PnL
C25_Witness ==
    /\ lastOp = "set_wd"
    /\ sim_ext_wd = 1
    /\ sim_start_bal = 10
    /\ sim_ext_dep = 3
    /\ SideAmountSum("SELL") > 0
    /\ sim_futures_pnl = <<1>>
    /\ shown.adjustedPnl = 1
    /\ shown.roiPercent.num > 0

\* ----------------------------------------------------------------- C26
\* totalSpotSell - totalSpotBuy - min(totalSpotSell, initial), from the ledger
NetFlowOfTotals ==
    SideAmountSum("SELL") - SideAmountSum("BUY")
    - Min(SideAmountSum("SELL"), sim_init_spot)

\* C26: in every reachable state hwmSpotFlow >= max(0, netSpotFlow), with
\* netSpotFlow = totalSpotSell - totalSpotBuy - min(totalSpotSell, initial);
\* the principal adjustment shown is therefore never below deposit + max(0,
\* netSpotFlow), the adjustment of the net-flow rule.
C26_HwmCoversNetFlow ==
    /\ shown.netSpotFlow = NetFlowOfTotals
    /\ shown.hwmSpotFlow >= Max(0, NetFlowOfTotals)
    /\ shown.principalAdjustment >= sim_ext_dep + Max(0, NetFlowOfTotals)

\* a peak has been bought back: the mark is strictly above the positive part
\* of the net flow
C26_Witness ==
    /\ shown.hwmSpotFlow > Max(0, shown.netSpotFlow)
    /\ shown.netSpotFlow >= 0
    /\ SideAmountSum("BUY") > 0
    /\ shown.principalAdjustment > sim_ext_dep + shown.netSpotFlow

\* ----------------------------------------------------------------- C27
\* C27: under both policies hwmSpotFlow >= 0 and principalAdjustment >=
\* deposit >= 0, so the ROI denominator start + principalAdjustment is >=
\* start.
C27_PrincipalAtLeastDeposit ==
    Derived =>
        /\ shown.hwmSpotFlow >= 0
        /\ shown.principalAdjustment >= sim_ext_dep
        /\ sim_ext_dep >= 0
        /\ sim_start_bal + shown.principalAdjustment >= sim_start_bal

\* OKX mode on a ledger that never reaches a positive flow: the net flow is
\* negative, the mark is 0 and the principal adjustment is the deposit of 3
C27_Witness ==
    /\ Derived
    /\ IsOkx(exchange_mode)
    /\ shown.netSpotFlow < 0
    /\ shown.hwmSpotFlow = 0
    /\ sim_ext_dep = 3
    /\ shown.principalAdjustment = 3

\* ----------------------------------------------------------------- C28
\* C28: in every reachable state hwmSpotFlow <= max(0, totalSpotSell -
\* initial): the peak never exceeds the sales beyond the initial spot
\* balance, whatever the order of the events and however often the ledger
\* cycles between BUY and SELL.
C28_HwmWithinExcessSales ==
    shown.hwmSpotFlow <= Max(0, SideAmountSum("SELL") - sim_init_spot)

\* a SELL, BUY, SELL cycle on a positive initial balance: the mark is
\* positive and stays below the sales in excess of that balance
C28_Witness ==
    /\ Len(sim_trades) = 3
    /\ sim_trades[1].type = "SELL"
    /\ sim_trades[2].type = "BUY"
    /\ sim_trades[3].type = "SELL"
    /\ sim_init_spot = 1
    /\ shown.hwmSpotFlow > 0
    /\ shown.hwmSpotFlow < SideAmountSum("SELL") - sim_init_spot

====
